---- MODULE Spec2Model ----
(***************************************************************************)
(* nsh relay node: the Server (reactor Handler, src/src/server.rs) and its *)
(* Delegate, the command Processor (src/src/processor.rs), driven by the   *)
(* reactor runtime that delivers events and drains the action queue.       *)
(*                                                                         *)
(* Bytes are sequences of integers 0..255.  Maps (HashMap) are functions   *)
(* with a finite domain.  A VecDeque / Vec is a sequence.                  *)
(***************************************************************************)
EXTENDS Integers, Sequences, FiniteSets, TLC

\* ------------------------------------------------------------------ bounds
\* Events the reactor delivers to the handler in one run.
MaxEvents == 6
\* Events it delivers to a Server value drawn with a populated outbox.
MaxOutboxEvents == 4
\* Longest per-descriptor outbox queue drawn for a Server value.
MaxOutbox == 2
\* Events it delivers in a run checked for liveness.
MaxLiveEvents == 5

\* Descriptor 3 is the listening socket; connections get 4, 5, ...
RawFds == 4..(3 + MaxEvents)
\* The listener and one transport per event at most.
ResourceIds == 1..(MaxEvents + 1)

\* ------------------------------------------------------------------- maps
EmptyMap == [k \in {} |-> 0]
MapInsert(m, k, v) == [x \in (DOMAIN m) \cup {k} |-> IF x = k THEN v ELSE m[x]]
MapRemove(m, k) == [x \in (DOMAIN m) \ {k} |-> m[x]]

\* ------------------------------------------------------------ byte strings
ECHO_TEXT == <<69, 67, 72, 79>>
DATE_TEXT == <<68, 65, 84, 69>>
NON_UTF8_COMMAND == <<78, 79, 78, 95, 85, 84, 70, 56, 95, 67, 79, 77, 77, 65, 78, 68>>
INVALID_COMMAND == <<73, 78, 86, 65, 76, 73, 68, 95, 67, 79, 77, 77, 65, 78, 68>>
FailurePrefix == <<70, 97, 105, 108, 117, 114, 101, 58, 32>>

IsPrefix(p, s) == Len(p) <= Len(s) /\ SubSeq(s, 1, Len(p)) = p

\* io::Error values the operating system may report, with their Display text.
IoErrors == {"refused"}
ErrorText(e) ==
    IF e = "refused" THEN <<114, 101, 102, 117, 115, 101, 100>>
    ELSE <<116, 105, 109, 101, 100, 32, 111, 117, 116>>

\* format!("Failure: {err}").as_bytes().to_vec()
FormatFailure(e) == FailurePrefix \o ErrorText(e)

\* String::from_utf8: the well-formed UTF-8 byte sequences.
Cont(b) == b >= 128 /\ b <= 191
RECURSIVE IsUtf8(_)
IsUtf8(b) ==
    IF Len(b) = 0 THEN TRUE
    ELSE LET h == b[1] n == Len(b) IN
      IF h <= 127 THEN IsUtf8(SubSeq(b, 2, n))
      ELSE IF h >= 194 /\ h <= 223
        THEN n >= 2 /\ Cont(b[2]) /\ IsUtf8(SubSeq(b, 3, n))
      ELSE IF h >= 224 /\ h <= 239
        THEN /\ n >= 3
             /\ Cont(b[2]) /\ Cont(b[3])
             /\ (h = 224 => b[2] >= 160)
             /\ (h = 237 => b[2] <= 159)
             /\ IsUtf8(SubSeq(b, 4, n))
      ELSE IF h >= 240 /\ h <= 244
        THEN /\ n >= 4
             /\ Cont(b[2]) /\ Cont(b[3]) /\ Cont(b[4])
             /\ (h = 240 => b[2] >= 144)
             /\ (h = 244 => b[2] <= 143)
             /\ IsUtf8(SubSeq(b, 5, n))
      ELSE FALSE

\* --------------------------------------------------------------- commands
\* crate::command is not among the sources; these give it the shape the
\* processor relies on: a LocalCommand with a Display form, and a Command
\* that is either ECHO or Forward { hop, command }, parsed from text.
LocalCommands == {"ECHO", "DATE"}
Hops == {"A", "B"}

\* <LocalCommand as Display>::to_string, as bytes
LocalCommand_to_string(c) == IF c = "ECHO" THEN ECHO_TEXT ELSE DATE_TEXT

HopText(h) == IF h = "A" THEN <<65>> ELSE <<66>>
ForwardText(h, c) == HopText(h) \o <<32>> \o LocalCommand_to_string(c)

NoCommand == [kind |-> "Err", hop |-> "", command |-> ""]
\* Command::from_str
Command_from_str(text) ==
    IF text = ECHO_TEXT THEN [kind |-> "ECHO", hop |-> "", command |-> ""]
    ELSE IF \E h \in Hops, c \in LocalCommands : text = ForwardText(h, c)
      THEN LET p == CHOOSE p \in Hops \X LocalCommands : text = ForwardText(p[1], p[2])
           IN [kind |-> "Forward", hop |-> p[1], command |-> p[2]]
    ELSE NoCommand

\* ---------------------------------------------------------------- actions
\* reactor::Action<Accept, Transport>, one record shape for all variants.
NoData == << >>
RegisterListener(fd) == [type |-> "RegisterListener", id |-> 0, fd |-> fd, data |-> NoData]
RegisterTransport(fd) == [type |-> "RegisterTransport", id |-> 0, fd |-> fd, data |-> NoData]
UnregisterListener(id) == [type |-> "UnregisterListener", id |-> id, fd |-> 0, data |-> NoData]
UnregisterTransport(id) == [type |-> "UnregisterTransport", id |-> id, fd |-> 0, data |-> NoData]
Send(id, data) == [type |-> "Send", id |-> id, fd |-> 0, data |-> data]

\* -------------------------------------------------------------- Processor
\* Mutant of new_client: the entry is read but left in the map.
new_client_keepsEntry(q, fd, id) ==
    IF fd \in DOMAIN q
    THEN [actions |-> <<Send(id, LocalCommand_to_string(q[fd]))>>, queue |-> q]
    ELSE [actions |-> << >>, queue |-> q]

\* Mutant of new_client: the entry is taken and nothing is sent.
new_client_forgets(q, fd, id) == [actions |-> << >>, queue |-> MapRemove(q, fd)]

\* Processor::new_client: take the command queued for fd, if any, and send
\* its text to the resource id the connection was assigned.
new_client(q, fd, id) ==
    IF fd \in DOMAIN q
    THEN [actions |-> <<Send(id, LocalCommand_to_string(q[fd]))>>,
          queue |-> MapRemove(q, fd)]
    ELSE [actions |-> << >>, queue |-> q]

\* What the operating system answers during one call of Processor::input:
\*   exec/stdout  process::Command::output()
\*   dial/fd      Session::connect_nonblocking, fd the socket it opened
\*   wrap         Transport::with_session
\*   err          the io::Error of whichever step failed
\* and during the Accepted arm of Server::handle_listener_event:
\*   addr         connection.peer_addr() and connection.local_addr()
\*   acc          Delegate::accept (Session::accept)
\*   wrap         Transport::accept
NoSys == [exec |-> "ok", stdout |-> NoData, dial |-> "err", fd |-> 0,
          wrap |-> "ok", err |-> "refused", addr |-> "ok", acc |-> "ok"]
EchoOutputs == {<<10>>, NoData}

\* Mutant of InputEcho: a successful execution unregisters the caller too.
InputEcho_alwaysUnregisters(q, id, sys) ==
    IF sys.exec = "ok"
    THEN [actions |-> <<Send(id, sys.stdout), UnregisterTransport(id)>>, queue |-> q,
          parsed |-> TRUE]
    ELSE [actions |-> <<Send(id, ErrorText(sys.err)), UnregisterTransport(id)>>,
          queue |-> q, parsed |-> TRUE]

\* Command::ECHO arm of Processor::input
InputEcho(q, id, sys) ==
    IF sys.exec = "ok"
    THEN [actions |-> <<Send(id, sys.stdout)>>, queue |-> q, parsed |-> TRUE]
    ELSE [actions |-> <<Send(id, ErrorText(sys.err)), UnregisterTransport(id)>>,
          queue |-> q, parsed |-> TRUE]

\* Mutant of InputForward: a failed dial unregisters the caller.
InputForward_dialErrUnregisters(q, id, command, sys) ==
    IF sys.dial # "ok"
    THEN [actions |-> <<Send(id, FormatFailure(sys.err)), UnregisterTransport(id)>>,
          queue |-> q, parsed |-> TRUE]
    ELSE IF sys.wrap = "ok"
    THEN [actions |-> <<RegisterTransport(sys.fd)>>,
          queue |-> MapInsert(q, sys.fd, command), parsed |-> TRUE]
    ELSE [actions |-> <<Send(id, FormatFailure(sys.err)), UnregisterTransport(id)>>,
          queue |-> q, parsed |-> TRUE]

\* Mutant of InputForward: a failed wrapping leaves the caller registered.
InputForward_wrapErrKeepsCaller(q, id, command, sys) ==
    IF sys.dial # "ok"
    THEN [actions |-> <<Send(id, FormatFailure(sys.err))>>, queue |-> q, parsed |-> TRUE]
    ELSE IF sys.wrap = "ok"
    THEN [actions |-> <<RegisterTransport(sys.fd)>>,
          queue |-> MapInsert(q, sys.fd, command), parsed |-> TRUE]
    ELSE [actions |-> <<Send(id, FormatFailure(sys.err))>>, queue |-> q, parsed |-> TRUE]

\* Command::Forward arm of Processor::input
InputForward(q, id, command, sys) ==
    IF sys.dial # "ok"
    THEN [actions |-> <<Send(id, FormatFailure(sys.err))>>, queue |-> q, parsed |-> TRUE]
    ELSE IF sys.wrap = "ok"
    THEN [actions |-> <<RegisterTransport(sys.fd)>>,
          queue |-> MapInsert(q, sys.fd, command), parsed |-> TRUE]
    ELSE [actions |-> <<Send(id, FormatFailure(sys.err)), UnregisterTransport(id)>>,
          queue |-> q, parsed |-> TRUE]

\* The String::from_utf8 failure arm of Processor::input
InputNonUtf8(q, id) ==
    [actions |-> <<Send(id, NON_UTF8_COMMAND), UnregisterTransport(id)>>,
     queue |-> q, parsed |-> FALSE]

\* Mutant of InputInvalid: the error token is sent, the caller stays registered.
InputInvalid_keepsCaller(q, id) ==
    [actions |-> <<Send(id, INVALID_COMMAND)>>, queue |-> q, parsed |-> TRUE]

\* The Command::from_str failure arm of Processor::input
InputInvalid(q, id) ==
    [actions |-> <<Send(id, INVALID_COMMAND), UnregisterTransport(id)>>,
     queue |-> q, parsed |-> TRUE]

\* Mutant of input: the bytes go to the parser without the UTF-8 check.
input_noUtf8Check(q, id, data, sys) ==
    LET cmd == Command_from_str(data) IN
      IF cmd.kind = "Err" THEN InputInvalid(q, id)
      ELSE IF cmd.kind = "ECHO" THEN InputEcho(q, id, sys)
      ELSE InputForward(q, id, cmd.command, sys)

\* Processor::input
input(q, id, data, sys) ==
    IF ~IsUtf8(data) THEN InputNonUtf8(q, id)
    ELSE LET cmd == Command_from_str(data) IN
      IF cmd.kind = "Err" THEN InputInvalid(q, id)
      ELSE IF cmd.kind = "ECHO" THEN InputEcho(q, id, sys)
      ELSE InputForward(q, id, cmd.command, sys)

\* ------------------------------------------------------------- xk sessions
\* Option<T>
None == << >>
Some(v) == <<v>>

\* G: Ecdh private keys, and <G as EcSk>::Pk of each.
PrivateKeys == {"sk1", "sk2", "sk3"}
PublicKey(sk) == <<"pk", sk>>
PublicKeys == {PublicKey(sk) : sk \in PrivateKeys}
\* What G::generate_keypair() may return.
KeyPairs == {<<sk, PublicKey(sk)>> : sk \in PrivateKeys}

\* NetAddr<HostName>: a host reached directly, and one reached through the proxy.
HostNames == {"ip", "tor"}
ProxyAddr == "proxy"
\* NetAddr::connection_addr(proxy_addr): where the socket connects to.
connection_addr(remote_addr, proxy_addr) ==
    IF remote_addr = "tor" THEN proxy_addr ELSE remote_addr

Outbound == "Outbound"
Inbound == "Inbound"
\* LinkDirection::is_outbound
is_outbound(direction) == direction = Outbound

\* Mutant of session: the pinned identity is not put into the keyset.
session_noPin(remote_addr, remote_id, connection, direction, signer, force_proxy, pair) ==
    [proxy |-> [connection |-> connection,
                socks5 |-> [remote_addr |-> remote_addr, force_proxy |-> force_proxy]],
     noise |-> [pattern |-> [initiator |-> "Xmitted", responder |-> "Known"],
                is_initiator |-> is_outbound(direction),
                prologue |-> << >>,
                keyset |-> [e |-> pair[1], s |-> Some(signer), re |-> None, rs |-> None]],
     asserted |-> (is_outbound(direction) => remote_id # None)]

\* xk::session, with pair the result of G::generate_keypair().  asserted is
\* the value of the debug_assert!.
session(remote_addr, remote_id, connection, direction, signer, force_proxy, pair) ==
    [proxy |-> [connection |-> connection,
                socks5 |-> [remote_addr |-> remote_addr, force_proxy |-> force_proxy]],
     noise |-> [pattern |-> [initiator |-> "Xmitted", responder |-> "Known"],
                is_initiator |-> is_outbound(direction),
                prologue |-> << >>,
                keyset |-> IF is_outbound(direction)
                           THEN [e |-> pair[1], s |-> Some(signer), re |-> None,
                                 rs |-> remote_id]
                           ELSE [e |-> pair[1], s |-> Some(signer), re |-> None,
                                 rs |-> None]],
     asserted |-> (is_outbound(direction) => remote_id # None)]

NoSession == [ok |-> FALSE, session |-> << >>]

\* xk::connect_nonblocking; io is the outcome of TcpStream::connect_nonblocking.
connect_nonblocking(remote_addr, remote_id, signer, proxy_addr, force_proxy, io, pair) ==
    LET target == IF force_proxy THEN proxy_addr
                  ELSE connection_addr(remote_addr, proxy_addr)
    IN IF io # "ok" THEN NoSession
       ELSE [ok |-> TRUE,
             session |-> session(remote_addr, Some(remote_id), [peer |-> target],
                                 Outbound, signer, force_proxy, pair)]

\* xk::accept; peer is connection.remote_addr().
accept(peer, signer, pair) ==
    [ok |-> TRUE,
     session |-> session(peer, None, [peer |-> peer], Inbound, signer, FALSE, pair)]

\* ----------------------------------------------------------------- state
VARIABLES
    xk,            \* the last call into xk.rs: its arguments, the key pair it
                   \* generated, and the session it returned
    outbox,        \* Server.outbox: RawFd -> queue of payloads
    action_queue,  \* Server.action_queue
    queue,         \* Processor.queue: RawFd -> LocalCommand
    panicked,      \* the process was aborted by a panic!
    listeners,     \* reactor: ids of the registered listeners
    transports,    \* reactor: id -> [fd, est] of the registered transports
    nextId,        \* reactor: the next resource id it assigns
    budget,        \* reactor: events it has yet to deliver in this run
    draining,      \* reactor: it is taking actions from the Server
    called,        \* history: descriptors new_client was called for, with no
                   \* Forward queued for them since
    dialled,       \* history: descriptor of each outbound transport that is open
                   \* and has not reported Established -> the command of the
                   \* Forward that dialled it
    leaked,        \* history: descriptors of the outbound transports that were
                   \* closed after Terminated, never having reported Established
    first,         \* history: the first action the Server yielded, if any
    last           \* the handler call made by the last step: its arguments, the
                   \* Server it was made on, and what it returned

serverVars == <<outbox, action_queue, queue, panicked, listeners, transports, nextId,
                budget, draining, called, dialled, leaked, first, last>>
vars == <<serverVars, xk>>

ListenerFd == 3

\* A handler call: op(id, ..) on the Server value <<outbox0, aq0, queue0>>.
Call(op, id, fd, data, sys, parsed, ret) ==
    [op |-> op, id |-> id, fd |-> fd, data |-> data, sys |-> sys,
     parsed |-> parsed, ret |-> ret,
     outbox0 |-> outbox, aq0 |-> action_queue, queue0 |-> queue,
     again |-> (op = "Established" /\ fd \in called),
     origin |-> IF op = "Established" /\ fd \in DOMAIN dialled THEN dialled[fd] ELSE "none",
     handover |-> /\ op = "next"
                  /\ ret[1].type = "UnregisterTransport"
                  /\ id \in DOMAIN transports]

\* Descriptors held open by a live Transport: registered with the reactor, or
\* carried by a RegisterTransport action not yet applied.
OpenFds ==
    {transports[i].fd : i \in DOMAIN transports}
      \cup {action_queue[i].fd : i \in {j \in 1..Len(action_queue) :
                                          action_queue[j].type = "RegisterTransport"}}
\* socket() and accept() return the lowest descriptor that is not open.
NewFd == CHOOSE f \in RawFds \ OpenFds : \A g \in RawFds \ OpenFds : f <= g

\* Server::with: the listener is bound and its registration queued.
ServerWith ==
    /\ action_queue = <<RegisterListener(ListenerFd)>>
    /\ queue = EmptyMap
    /\ panicked = FALSE
    /\ listeners = {}
    /\ transports = EmptyMap
    /\ nextId = 1
    /\ draining = FALSE
    /\ called = {}
    /\ dialled = EmptyMap
    /\ leaked = {}
    /\ first = << >>
    /\ last = Call("with", 0, ListenerFd, NoData, NoSys, FALSE, << >>)

\* The arguments of a call into xk.rs.
XkInputs ==
    [remote_addr : HostNames, remote_id : PublicKeys, signer : PrivateKeys,
     force_proxy : BOOLEAN]
NoXk == [op |-> "none",
         in |-> [remote_addr |-> "ip", remote_id |-> PublicKey("sk1"), signer |-> "sk1",
                 force_proxy |-> FALSE],
         gen |-> << >>, out |-> NoSession]

Init ==
    /\ outbox = EmptyMap
    /\ budget = MaxEvents
    /\ ServerWith
    /\ xk = NoXk

\* Server values whose outbox holds payloads for one descriptor.  No code of
\* the Server fills the outbox, so such a value is an input to the handler,
\* not a state a run from Init reaches.
Payloads == {<<1>>, <<2>>}
OutboxQueues == UNION {[1..n -> Payloads] : n \in 1..MaxOutbox}
OutboxValues == {[k \in {f} |-> q] : f \in {g \in RawFds : g <= 5}, q \in OutboxQueues}

InitOutbox ==
    /\ outbox \in OutboxValues
    /\ budget = MaxOutboxEvents
    /\ ServerWith
    /\ xk = NoXk

InitLive ==
    /\ outbox = EmptyMap
    /\ budget = MaxLiveEvents
    /\ ServerWith
    /\ xk = NoXk

\* A node about to open or accept one session, for each choice of arguments.
InitSession ==
    /\ outbox = EmptyMap
    /\ budget = 0
    /\ ServerWith
    /\ xk \in {[NoXk EXCEPT !.in = i] : i \in XkInputs}

\* ----------------------------------------------------------------- Server
\* The reactor's loop: a poll round delivers events to the handler, one at a
\* time, then the reactor takes every action the Server holds.
Deliver ==
    /\ ~panicked
    /\ ~draining
    /\ budget > 0
    /\ budget' = budget - 1
    /\ draining' = FALSE

\* Payloads a peer may deliver in a Data event.
Inputs ==
    { <<255>>, <<195, 40>>,                      \* not UTF-8
      <<195, 169>>, <<65, 32>>,                  \* text, no command
      ECHO_TEXT,
      ForwardText("A", "ECHO"), ForwardText("B", "DATE") }

\* The answers of the operating system that a call of input on data can consume.
SysChoices(data) ==
    LET cmd == IF IsUtf8(data) THEN Command_from_str(data) ELSE NoCommand IN
    IF cmd.kind = "ECHO"
    THEN {[NoSys EXCEPT !.stdout = o] : o \in EchoOutputs}
           \cup {[NoSys EXCEPT !.exec = "err", !.err = e] : e \in IoErrors}
    ELSE IF cmd.kind = "Forward"
    THEN {[NoSys EXCEPT !.err = e] : e \in IoErrors}
           \cup {[NoSys EXCEPT !.dial = "ok", !.fd = NewFd]}
           \cup {[NoSys EXCEPT !.dial = "ok", !.wrap = "err", !.err = e] : e \in IoErrors}
    ELSE {NoSys}

\* Mutant of OnEstablished: the outbox is flushed before the delegate is asked.
OnEstablished_outboxFirst(ob, aq, pq, fd, id) ==
    LET q == IF fd \in DOMAIN ob THEN ob[fd] ELSE << >>
        r == new_client(pq, fd, id)
    IN [outbox |-> MapRemove(ob, fd),
        action_queue |-> (aq \o [i \in 1..Len(q) |-> Send(id, q[i])]) \o r.actions,
        queue |-> r.queue,
        ret |-> r.actions]

\* Mutant of OnEstablished: the outbox is flushed last in, first out.
OnEstablished_lifo(ob, aq, pq, fd, id) ==
    LET q == IF fd \in DOMAIN ob THEN ob[fd] ELSE << >>
        r == new_client(pq, fd, id)
    IN [outbox |-> MapRemove(ob, fd),
        action_queue |-> (aq \o r.actions) \o [i \in 1..Len(q) |-> Send(id, q[Len(q) + 1 - i])],
        queue |-> r.queue,
        ret |-> r.actions]

\* Mutant of OnEstablished: the delegate's reply is parked in the outbox of
\* the descriptor instead of being queued.
OnEstablished_stashesReply(ob, aq, pq, fd, id) ==
    LET q == IF fd \in DOMAIN ob THEN ob[fd] ELSE << >>
        r == new_client(pq, fd, id)
    IN [outbox |-> IF r.actions = << >> THEN MapRemove(ob, fd)
                   ELSE MapInsert(ob, fd, <<r.actions[1].data>>),
        action_queue |-> aq \o [i \in 1..Len(q) |-> Send(id, q[i])],
        queue |-> r.queue,
        ret |-> r.actions]

\* SessionEvent::Established arm of Server::handle_transport_event, on a Server
\* whose fields are ob (outbox), aq (action_queue) and pq (the delegate's queue).
OnEstablished(ob, aq, pq, fd, id) ==
    LET q == IF fd \in DOMAIN ob THEN ob[fd] ELSE << >>
        r == new_client(pq, fd, id)
    IN [outbox |-> MapRemove(ob, fd),
        action_queue |-> (aq \o r.actions) \o [i \in 1..Len(q) |-> Send(id, q[i])],
        queue |-> r.queue,
        ret |-> r.actions]

\* SessionEvent::Data arm
OnData(aq, pq, id, data, sys) ==
    LET r == input(pq, id, data, sys)
    IN [action_queue |-> aq \o r.actions, queue |-> r.queue,
        ret |-> r.actions, parsed |-> r.parsed]

\* Mutant of OnTerminated: the unregister action is queued twice.
OnTerminated_twice(aq, id) == aq \o <<UnregisterTransport(id), UnregisterTransport(id)>>

\* SessionEvent::Terminated arm
OnTerminated(aq, id) == Append(aq, UnregisterTransport(id))

TransportEstablished(id) ==
    /\ Deliver
    /\ id \in DOMAIN transports
    /\ ~transports[id].est
    /\ LET fd == transports[id].fd
           r == OnEstablished(outbox, action_queue, queue, fd, id)
       IN /\ outbox' = r.outbox
          /\ action_queue' = r.action_queue
          /\ queue' = r.queue
          /\ last' = Call("Established", id, fd, NoData, NoSys, FALSE, r.ret)
    /\ transports' = [transports EXCEPT ![id].est = TRUE]
    /\ called' = called \cup {transports[id].fd}
    /\ dialled' = MapRemove(dialled, transports[id].fd)
    /\ UNCHANGED <<panicked, listeners, nextId, leaked, first, xk>>

TransportData(id) ==
    /\ Deliver
    /\ id \in DOMAIN transports
    /\ transports[id].est
    /\ \E data \in Inputs : \E sys \in SysChoices(data) :
         LET r == OnData(action_queue, queue, id, data, sys)
         IN /\ action_queue' = r.action_queue
            /\ queue' = r.queue
            /\ last' = Call("Data", id, sys.fd, data, sys, r.parsed, r.ret)
            /\ called' = called \ (DOMAIN r.queue \ DOMAIN queue)
            /\ dialled' = IF RegisterTransport(sys.fd) \in {r.ret[i] : i \in 1..Len(r.ret)}
                           THEN MapInsert(dialled, sys.fd, r.queue[sys.fd])
                           ELSE dialled
    /\ UNCHANGED <<outbox, panicked, listeners, transports, nextId, leaked, first, xk>>

TransportTerminated(id) ==
    /\ Deliver
    /\ id \in DOMAIN transports
    /\ action_queue' = OnTerminated(action_queue, id)
    /\ last' = Call("Terminated", id, transports[id].fd, NoData, NoSys, FALSE, << >>)
    /\ UNCHANGED <<outbox, queue, panicked, listeners, transports, nextId, called, dialled, leaked, first, xk>>

\* Server::handle_transport_event
handle_transport_event ==
    \E id \in ResourceIds :
        \/ TransportEstablished(id)
        \/ TransportData(id)
        \/ TransportTerminated(id)

\* The answers of the operating system that the Accepted arm can consume: the
\* addresses are asked first, the session is wrapped only if it was accepted.
AcceptChoices ==
    {[NoSys EXCEPT !.addr = "err"], NoSys, [NoSys EXCEPT !.acc = "err"],
     [NoSys EXCEPT !.wrap = "err"]}

\* Mutant of OnAccepted: a connection whose wrapping failed is registered too.
OnAccepted_registersFailed(aq, fd, sys) ==
    IF sys.addr # "ok" THEN [action_queue |-> aq, panicked |-> TRUE]
    ELSE IF sys.acc = "ok"
    THEN [action_queue |-> Append(aq, RegisterTransport(fd)), panicked |-> FALSE]
    ELSE [action_queue |-> aq, panicked |-> FALSE]

\* ListenerEvent::Accepted arm of Server::handle_listener_event: the two
\* expect()s on the addresses, then
\* delegate.accept(connection).and_then(Transport::accept).
OnAccepted(aq, fd, sys) ==
    IF sys.addr # "ok" THEN [action_queue |-> aq, panicked |-> TRUE]
    ELSE IF sys.acc = "ok" /\ sys.wrap = "ok"
    THEN [action_queue |-> Append(aq, RegisterTransport(fd)), panicked |-> FALSE]
    ELSE [action_queue |-> aq, panicked |-> FALSE]

\* Mutant of OnListenerFailure: the failed listener is unregistered.
OnListenerFailure_unregisters(aq, id) == Append(aq, UnregisterListener(id))

\* ListenerEvent::Failure arm: the error is logged.
OnListenerFailure(aq, id) == aq

ListenerAccepted(id) ==
    /\ Deliver
    /\ id \in listeners
    /\ \E sys \in AcceptChoices :
         LET r == OnAccepted(action_queue, NewFd, sys)
         IN /\ action_queue' = r.action_queue
            /\ panicked' = r.panicked
            /\ last' = Call("Accepted", id, NewFd, NoData, sys, FALSE, << >>)
    /\ UNCHANGED <<outbox, queue, listeners, transports, nextId, called, dialled, leaked, first, xk>>

ListenerFailure(id) ==
    /\ Deliver
    /\ id \in listeners
    /\ action_queue' = OnListenerFailure(action_queue, id)
    /\ last' = Call("Failure", id, 0, NoData, NoSys, FALSE, << >>)
    /\ UNCHANGED <<outbox, queue, panicked, listeners, transports, nextId, called, dialled, leaked, first, xk>>

\* Server::handle_listener_event
handle_listener_event ==
    \E id \in ResourceIds :
        \/ ListenerAccepted(id)
        \/ ListenerFailure(id)

\* Mutant of OnError: a listener's disconnect is logged and nothing more.
OnError_logOnly(aq, err, id) == aq

\* The match of Server::handle_error on the error err about resource id.
OnError(aq, err, id) ==
    IF err = "TransportDisconnect" THEN aq
    ELSE IF err = "Poll" THEN aq
    ELSE Append(aq, UnregisterListener(id))

\* Server::handle_error.  The error value owns the disconnected resource, so
\* the reactor no longer holds it.
ErrorTransportDisconnect(id) ==
    /\ Deliver
    /\ id \in DOMAIN transports
    /\ transports' = MapRemove(transports, id)
    /\ action_queue' = OnError(action_queue, "TransportDisconnect", id)
    /\ last' = Call("TransportDisconnect", id, transports[id].fd, NoData, NoSys, FALSE, << >>)
    /\ dialled' = MapRemove(dialled, transports[id].fd)
    /\ UNCHANGED <<outbox, queue, panicked, listeners, nextId, called, leaked, first, xk>>

ErrorPoll ==
    /\ Deliver
    /\ action_queue' = OnError(action_queue, "Poll", 0)
    /\ last' = Call("Poll", 0, 0, NoData, NoSys, FALSE, << >>)
    /\ UNCHANGED <<outbox, queue, panicked, listeners, transports, nextId, called, dialled, leaked, first, xk>>

ErrorListenerDisconnect(id) ==
    /\ Deliver
    /\ id \in listeners
    /\ listeners' = listeners \ {id}
    /\ action_queue' = OnError(action_queue, "ListenerDisconnect", id)
    /\ last' = Call("ListenerDisconnect", id, ListenerFd, NoData, NoSys, FALSE, << >>)
    /\ UNCHANGED <<outbox, queue, panicked, transports, nextId, called, dialled, leaked, first, xk>>

handle_error ==
    \/ \E id \in ResourceIds : ErrorTransportDisconnect(id)
    \/ ErrorPoll
    \/ \E id \in ResourceIds : ErrorListenerDisconnect(id)

\* Mutant of OnHandoverListener: the disconnected listener is only logged.
OnHandoverListener_logs(id) == FALSE

\* Body of Server::handover_listener: whether the call aborts the process.
OnHandoverListener(id) == TRUE

\* Mutant of OnHandoverTransport: the returned transport is unregistered again.
OnHandoverTransport_unregisters(aq, id) ==
    [action_queue |-> Append(aq, UnregisterTransport(id)), panicked |-> FALSE]

\* Body of Server::handover_transport: a warning is logged and the transport
\* dropped.
OnHandoverTransport(aq, id) == [action_queue |-> aq, panicked |-> FALSE]

\* Server::handover_listener: the reactor hands a removed listener back.
handover_listener ==
    \E id \in listeners :
        /\ Deliver
        /\ listeners' = listeners \ {id}
        /\ panicked' = OnHandoverListener(id)
        /\ last' = Call("handover_listener", id, ListenerFd, NoData, NoSys, FALSE, << >>)
        /\ UNCHANGED <<outbox, action_queue, queue, transports, nextId, called, dialled, leaked, first, xk>>

\* Mutant of pop_front: the most recent action is taken.
pop_back(aq) == [item |-> aq[Len(aq)], rest |-> SubSeq(aq, 1, Len(aq) - 1)]

\* VecDeque::pop_front on a queue that is not empty.
pop_front(aq) == [item |-> Head(aq), rest |-> Tail(aq)]

\* Iterator::next for Server: the reactor takes the front action and applies
\* it.  Registration assigns the next resource id (handle_registered only
\* logs); unregistering a transport the reactor still holds hands it back
\* (handover_transport only logs, and drops it); unregistering a listener it
\* still holds hands it back (handover_listener panics).
next ==
    /\ ~panicked
    /\ action_queue # << >>
    /\ LET p == pop_front(action_queue)
           a == p.item
           h == IF a.type = "UnregisterTransport" /\ a.id \in DOMAIN transports
                THEN OnHandoverTransport(p.rest, a.id)
                ELSE [action_queue |-> p.rest, panicked |-> FALSE]
       IN
       /\ action_queue' = h.action_queue
       /\ draining' = (h.action_queue # << >>)
       /\ last' = Call("next", a.id, a.fd, a.data, NoSys, FALSE, <<a>>)
       /\ listeners' =
            IF a.type = "RegisterListener" THEN listeners \cup {nextId}
            ELSE IF a.type = "UnregisterListener" THEN listeners \ {a.id}
            ELSE listeners
       /\ transports' =
            IF a.type = "RegisterTransport"
              THEN MapInsert(transports, nextId, [fd |-> a.fd, est |-> FALSE])
            ELSE IF a.type = "UnregisterTransport" THEN MapRemove(transports, a.id)
            ELSE transports
       /\ nextId' = IF a.type \in {"RegisterListener", "RegisterTransport"}
                    THEN nextId + 1 ELSE nextId
       /\ panicked' = \/ h.panicked
                      \/ /\ a.type = "UnregisterListener" /\ a.id \in listeners
                         /\ OnHandoverListener(a.id)
       /\ first' = IF first = << >> THEN <<a>> ELSE first
       /\ LET closed == IF a.type = "UnregisterTransport" /\ a.id \in DOMAIN transports
                         THEN {transports[a.id].fd} ELSE {}
          IN /\ dialled' = [f \in DOMAIN dialled \ closed |-> dialled[f]]
             /\ leaked' = leaked \cup (closed \cap DOMAIN dialled)
    /\ UNCHANGED <<outbox, queue, budget, called, xk>>

Next ==
    \/ handle_listener_event
    \/ handle_transport_event
    \/ handle_error
    \/ handover_listener
    \/ next

Spec == Init /\ [][Next]_vars

\* The reactor takes actions from the Server for as long as it holds any: it
\* calls next until it returns None after every poll round.
SpecLive == InitLive /\ [][Next]_vars /\ WF_vars(next)

\* One call of xk::connect_nonblocking on the drawn arguments.
XkConnect ==
    /\ xk.op = "none"
    /\ \E io \in {"ok", "err"}, pair \in KeyPairs :
         xk' = [xk EXCEPT !.op = "connect", !.gen = pair,
                          !.out = connect_nonblocking(xk.in.remote_addr, xk.in.remote_id,
                                    xk.in.signer, ProxyAddr, xk.in.force_proxy, io, pair)]
    /\ UNCHANGED serverVars

\* One call of xk::accept on a connection from the drawn address.
XkAccept ==
    /\ xk.op = "none"
    /\ \E pair \in KeyPairs :
         xk' = [xk EXCEPT !.op = "accept", !.gen = pair,
                          !.out = accept(xk.in.remote_addr, xk.in.signer, pair)]
    /\ UNCHANGED serverVars

NextSession ==
    \/ XkConnect
    \/ XkAccept

\* Session construction alone, on every choice of its arguments.
SpecSession == InitSession /\ [][NextSession]_vars

\* The same handler and reactor, started on a Server with a populated outbox.
SpecOutbox == InitOutbox /\ [][Next]_vars

\* ================================================================ claims
\* Every claim is read off `last`, the handler call the last step made: its
\* arguments, the Server it was made on (outbox0, aq0, queue0), what the
\* delegate returned (ret), and the Server after it (the variables).

\* The command the last Data event's bytes parse to.
LastCmd == IF IsUtf8(last.data) THEN Command_from_str(last.data) ELSE NoCommand
IsForwardCall == last.op = "Data" /\ LastCmd.kind = "Forward"
DialFailed == IsForwardCall /\ last.sys.dial # "ok"
WrapFailed == IsForwardCall /\ last.sys.dial = "ok" /\ last.sys.wrap # "ok"
ForwardSucceeded == IsForwardCall /\ last.sys.dial = "ok" /\ last.sys.wrap = "ok"
IsEchoCall == last.op = "Data" /\ LastCmd.kind = "ECHO"
Elems(seq) == {seq[i] : i \in 1..Len(seq)}
SameExcept(m0, m, k) ==
    /\ DOMAIN m \ {k} = DOMAIN m0 \ {k}
    /\ \A x \in DOMAIN m0 \ {k} : m[x] = m0[x]

\* C1: a Forward whose dial and wrapping succeed adds exactly one entry to the
\* Pending-Command Map, keyed by the new transport's descriptor and holding
\* the embedded command, and returns exactly RegisterTransport(new transport).
C1_ForwardAddsOneEntry ==
    ForwardSucceeded =>
      /\ last.fd \notin DOMAIN last.queue0
      /\ Cardinality(DOMAIN queue) = Cardinality(DOMAIN last.queue0) + 1
      /\ last.fd \in DOMAIN queue /\ queue[last.fd] = LastCmd.command
      /\ SameExcept(last.queue0, queue, last.fd)
      /\ last.ret = <<RegisterTransport(last.fd)>>

\* C2: new_client(fd, id, key) with an entry for fd removes it and returns
\* exactly Send(id, text of the queued command); with no entry it returns
\* nothing and leaves the map as it was; a second call for the same fd with
\* no Forward in between returns nothing.
C2_NewClient ==
    last.op = "Established" =>
      /\ last.fd \in DOMAIN last.queue0 =>
           /\ last.ret = <<Send(last.id, LocalCommand_to_string(last.queue0[last.fd]))>>
           /\ last.fd \notin DOMAIN queue
           /\ SameExcept(last.queue0, queue, last.fd)
      /\ last.fd \notin DOMAIN last.queue0 =>
           /\ last.ret = << >>
           /\ queue = last.queue0
      /\ last.again => last.ret = << >>

C2_Witness ==
    /\ last.op = "Established"
    /\ last.fd \in DOMAIN last.queue0
    /\ last.ret # << >>

\* A second new_client call for a descriptor, no Forward in between.
C2_SecondCall == last.op = "Established" /\ last.again

\* The Sends the Established arm makes of an outbox queue.
Flush(id, q) == [i \in 1..Len(q) |-> Send(id, q[i])]
OutboxOf(fd) == IF fd \in DOMAIN last.outbox0 THEN last.outbox0[fd] ELSE << >>

\* C3: on Established(fd) for id with a pending command and outbox payloads
\* for fd, the queue grows by new_client's actions first, then one Send(id,
\* payload) per outbox payload in insertion order; the outbox entry is removed.
C3_DelegateThenOutbox ==
    (/\ last.op = "Established"
     /\ last.fd \in DOMAIN last.queue0
     /\ OutboxOf(last.fd) # << >>) =>
      /\ last.ret = <<Send(last.id, LocalCommand_to_string(last.queue0[last.fd]))>>
      /\ action_queue = (last.aq0 \o last.ret) \o Flush(last.id, OutboxOf(last.fd))
      /\ last.fd \notin DOMAIN outbox

C3_Witness ==
    /\ last.op = "Established"
    /\ last.fd \in DOMAIN last.queue0
    /\ Len(OutboxOf(last.fd)) >= 2
    /\ OutboxOf(last.fd)[1] # OutboxOf(last.fd)[2]

C5_NonUtf8 ==
    (last.op = "Data" /\ ~IsUtf8(last.data)) =>
      /\ last.ret = <<Send(last.id, NON_UTF8_COMMAND), UnregisterTransport(last.id)>>
      /\ ~last.parsed
      /\ queue = last.queue0

C5_Witness == last.op = "Data" /\ ~IsUtf8(last.data) /\ Len(last.data) >= 2

\* C6: text that is no command makes input return Send(id, INVALID_COMMAND)
\* then UnregisterTransport(id); the token is not the non-text token and the
\* Pending-Command Map is unchanged.
C6_InvalidCommand ==
    (last.op = "Data" /\ IsUtf8(last.data) /\ LastCmd.kind = "Err") =>
      /\ last.ret = <<Send(last.id, INVALID_COMMAND), UnregisterTransport(last.id)>>
      /\ last.ret[1].data # NON_UTF8_COMMAND
      /\ queue = last.queue0

C6_Witness == last.op = "Data" /\ IsUtf8(last.data) /\ LastCmd.kind = "Err"

\* C7: a Forward whose dial fails returns exactly one action, a Send to the
\* caller of text beginning "Failure: "; the Pending-Command Map is unchanged.
C7_DialFailure ==
    DialFailed =>
      /\ Len(last.ret) = 1
      /\ last.ret[1].type = "Send" /\ last.ret[1].id = last.id
      /\ IsPrefix(FailurePrefix, last.ret[1].data)
      /\ queue = last.queue0

C7_Witness == DialFailed /\ DOMAIN last.queue0 # {}

\* C8: a Forward whose wrapping fails returns a Send to the caller of text
\* beginning "Failure: " then UnregisterTransport(caller), inserts nothing;
\* no other Forward outcome unregisters the caller.
C8_WrapFailure ==
    /\ WrapFailed =>
         /\ Len(last.ret) = 2
         /\ last.ret[1].type = "Send" /\ last.ret[1].id = last.id
         /\ IsPrefix(FailurePrefix, last.ret[1].data)
         /\ last.ret[2] = UnregisterTransport(last.id)
         /\ queue = last.queue0
    /\ (IsForwardCall /\ UnregisterTransport(last.id) \in Elems(last.ret)) => WrapFailed

C8_Witness == WrapFailed

\* C9: ECHO returns Send(id, captured stdout) alone when the execution
\* succeeds, and Send(id, error text) then UnregisterTransport(id) when it
\* fails; the Pending-Command Map is unchanged either way.
C9_Echo ==
    IsEchoCall =>
      /\ last.sys.exec = "ok" => last.ret = <<Send(last.id, last.sys.stdout)>>
      /\ last.sys.exec # "ok" =>
           last.ret = <<Send(last.id, ErrorText(last.sys.err)), UnregisterTransport(last.id)>>
      /\ queue = last.queue0

C9_Witness == IsEchoCall /\ last.sys.exec = "ok" /\ last.sys.stdout = <<10>>

\* C10: a Terminated event for id appends exactly UnregisterTransport(id),
\* leaves the outbox and the Pending-Command Map alone, and does not panic,
\* also when an unregister for id is already queued.
C10_Terminated ==
    /\ last.op = "Terminated" =>
         /\ action_queue = Append(last.aq0, UnregisterTransport(last.id))
         /\ outbox = last.outbox0
         /\ queue = last.queue0
    /\ last.op \in {"Terminated", "Data", "Established"} => ~panicked

C10_Witness ==
    /\ last.op = "Terminated"
    /\ UnregisterTransport(last.id) \in Elems(last.aq0)
    /\ DOMAIN queue # {}

\* The calls of the Handler trait, as opposed to Iterator::next and Server::with.
HandlerOps ==
    {"Accepted", "Failure", "Established", "Data", "Terminated",
     "TransportDisconnect", "Poll", "ListenerDisconnect", "handover_listener"}
\* What the last call appended to the action queue.
Appended == SubSeq(action_queue, Len(last.aq0) + 1, Len(action_queue))

\* C11: the Server yields its actions in the order they were appended: next
\* yields the front of the queue and leaves the rest as it was, every handler
\* call appends behind what is queued (the delegate's actions in the order
\* it returned them), and the first action ever yielded is the
\* RegisterListener queued by Server::with.
C11_Fifo ==
    /\ last.op = "with" => action_queue = <<RegisterListener(ListenerFd)>> /\ first = << >>
    /\ last.op = "next" => Len(last.ret) = 1 /\ last.aq0 = last.ret \o action_queue
    /\ last.op \in HandlerOps =>
         /\ Len(action_queue) >= Len(last.aq0)
         /\ SubSeq(action_queue, 1, Len(last.aq0)) = last.aq0
    /\ last.op = "Data" => action_queue = last.aq0 \o last.ret
    /\ first # << >> => first = <<RegisterListener(ListenerFd)>>

C11_Witness ==
    /\ last.op = "next"
    /\ Len(last.aq0) >= 3
    /\ last.aq0[1] # last.aq0[3]
    /\ last.ret[1].type = "Send"

\* C12: handle_error appends nothing for a TransportDisconnect or a Poll
\* error and exactly UnregisterListener(id) for a ListenerDisconnect(id);
\* none of them aborts the process or touches the outbox or the
\* Pending-Command Map.
C12_HandleError ==
    /\ last.op \in {"TransportDisconnect", "Poll"} => action_queue = last.aq0
    /\ last.op = "ListenerDisconnect" =>
         action_queue = Append(last.aq0, UnregisterListener(last.id))
    /\ last.op \in {"TransportDisconnect", "Poll", "ListenerDisconnect"} =>
         /\ ~panicked
         /\ outbox = last.outbox0
         /\ queue = last.queue0

C12_Witness ==
    /\ last.op = "ListenerDisconnect"
    /\ last.aq0 # << >>
    /\ DOMAIN queue # {}

\* The Accepted event whose session was accepted and wrapped.
AcceptSucceeded ==
    last.op = "Accepted" /\ last.sys.addr = "ok" /\ last.sys.acc = "ok" /\ last.sys.wrap = "ok"

\* C13: an Accepted event appends exactly RegisterTransport(the accepted
\* connection) when the delegate's accept and the wrapping both succeed and
\* nothing when either fails; a Failure event appends nothing and the
\* listener stays registered.
C13_ListenerEvent ==
    /\ AcceptSucceeded => action_queue = Append(last.aq0, RegisterTransport(last.fd))
    /\ (last.op = "Accepted" /\ ~AcceptSucceeded) => action_queue = last.aq0
    /\ last.op = "Failure" =>
         /\ action_queue = last.aq0
         /\ last.id \in listeners
         /\ ~panicked

C13_Witness ==
    /\ last.op = "Accepted"
    /\ last.sys.addr = "ok" /\ last.sys.acc = "ok" /\ last.sys.wrap = "err"
    /\ last.aq0 # << >>

\* C14: handover_listener aborts the process whatever the Handler holds;
\* handover_transport does not, appends nothing behind the rest of the
\* queue and leaves the outbox and the Pending-Command Map as they were.
C14_Handover ==
    /\ last.op = "handover_listener" => panicked
    /\ last.handover =>
         /\ ~panicked
         /\ action_queue = Tail(last.aq0)
         /\ outbox = last.outbox0
         /\ queue = last.queue0

C14_Witness ==
    /\ last.handover
    /\ DOMAIN queue # {}
    /\ Len(last.aq0) >= 2

\* handover_listener called on a Server with queued actions and an entry.
C14_ListenerCase ==
    /\ last.op = "handover_listener"
    /\ last.aq0 # << >>
    /\ DOMAIN queue # {}

\* C15: only new_client removes entries of the Pending-Command Map: error and
\* handover calls and Terminated leave the map as it was, Data removes no
\* entry, and the entry of an outbound transport that was closed after
\* Terminated, never having reported Established, is in the map ever after.
C15_OnlyNewClientRemoves ==
    /\ last.op \in (HandlerOps \ {"Established", "Data", "Accepted", "Failure"}) =>
         queue = last.queue0
    /\ last.handover => queue = last.queue0
    /\ last.op = "Data" => DOMAIN last.queue0 \subseteq DOMAIN queue
    /\ leaked \subseteq DOMAIN queue

\* C18: a Send that new_client returns goes to a transport some Forward
\* dialled and carries that Forward's command, and no Forward writes over an
\* entry that is still queued.
C18_CommandReachesItsTransport ==
    /\ (last.op = "Established" /\ last.ret # << >>) =>
         /\ last.origin # "none"
         /\ last.ret = <<Send(last.id, LocalCommand_to_string(last.origin))>>
    /\ ForwardSucceeded => last.fd \notin DOMAIN last.queue0

\* A queued command is sent to a connection no Forward dialled.
C18_Misdelivery == last.op = "Established" /\ last.ret # << >> /\ last.origin = "none"

\* C19: a call never appends Send(id, ..) behind a queued
\* UnregisterTransport(id).
C19_NoSendAfterUnregister ==
    last.op \in HandlerOps =>
      \A i \in 1..Len(Appended) :
         Appended[i].type = "Send" =>
           UnregisterTransport(Appended[i].id) \notin Elems(last.aq0)

\* C20: the outbox is empty in every state, and an Established event appends
\* exactly what new_client returned: nothing, or one Send.
C20_OutboxEmpty ==
    /\ outbox = EmptyMap
    /\ last.op = "Established" =>
         /\ action_queue = last.aq0 \o last.ret
         /\ Len(last.ret) <= 1
         /\ \A i \in 1..Len(last.ret) : last.ret[i].type = "Send"

C20_Witness ==
    /\ last.op = "Established"
    /\ Len(last.ret) = 1
    /\ last.aq0 # << >>
    /\ outbox = EmptyMap

\* The keyset of the session the last call into xk.rs returned.
XkNoise == xk.out.session.noise

\* C16: a session made by connect_nonblocking is the handshake initiator and
\* its keyset holds the pinned remote identity; one made by accept is the
\* responder and holds no remote identity; either way e is the private key
\* of the pair generated in the call, s is the signer and re is absent.
C16_SessionRole ==
    /\ (xk.op = "connect" /\ xk.out.ok) =>
         /\ XkNoise.is_initiator
         /\ XkNoise.keyset.rs # None
         /\ XkNoise.keyset.rs = Some(xk.in.remote_id)
         /\ xk.out.session.asserted
    /\ xk.op = "accept" =>
         /\ xk.out.ok
         /\ ~XkNoise.is_initiator
         /\ XkNoise.keyset.rs = None
    /\ (xk.op # "none" /\ xk.out.ok) =>
         /\ XkNoise.keyset.e = xk.gen[1]
         /\ XkNoise.keyset.s = Some(xk.in.signer)
         /\ XkNoise.keyset.re = None

C16_Witness ==
    /\ xk.op = "connect" /\ xk.out.ok
    /\ xk.in.remote_id # PublicKey(xk.in.signer)
    /\ xk.gen[1] # xk.in.signer

\* An accepted session whose generated key differs from the signer.
C16_Inbound == xk.op = "accept" /\ xk.gen[1] # xk.in.signer

\* C17: when Established is delivered for a transport that a Forward dialled,
\* the RegisterTransport of that transport has left the queue, and the
\* Server eventually yields a Send of the Forward's command to the
\* transport's resource id, unless the process aborts first.
C17_ForwardDelivered ==
    /\ [](last.origin # "none" => RegisterTransport(last.fd) \notin Elems(action_queue))
    /\ \A id \in ResourceIds, c \in LocalCommands :
         (last.op = "Established" /\ last.id = id /\ last.origin = c)
           ~> \/ last.op = "next" /\ last.ret = <<Send(id, LocalCommand_to_string(c))>>
              \/ panicked

C17_Witness ==
    /\ last.op = "next"
    /\ last.ret[1].type = "Send"
    /\ last.ret[1].data \in {LocalCommand_to_string(c) : c \in LocalCommands}
    /\ last.ret[1].id \in DOMAIN transports
    /\ ~panicked

====
